---- MODULE Spec2Model ----
(***************************************************************************)
(* Model of the video landmark extraction and serialization pipeline of    *)
(* app.py: analyze_video, save_landmarks_data, save_visualized_video and   *)
(* process_video_and_update_ui.  One behaviour is one run of               *)
(* process_video_and_update_ui; the inputs of the run (the uploaded file,  *)
(* the frames the reader yields, the frame rate, the failures of the file  *)
(* system and of the video writer) are drawn where the code consumes them. *)
(***************************************************************************)
EXTENDS Integers, Sequences, FiniteSets, TLC

\* ------------------------------------------------------------------ bounds

\* Largest number of frames a source yields.
MaxFrames == 3
\* Number of joints the detector reports for a detected subject (K).
NumJoints == 2
\* Largest frame rate the reader reports; the smallest is -1.
MaxFps == 2
\* Direct calls of save_landmarks_data: how many are made, how far the clock
\* runs (in ticks), and how many ticks make one second.
MaxCalls == 2
MaxClock == 4
TicksPerSecond == 2

\* ------------------------------------------------------------------ values

\* Python's None for a path (process_video_and_update_ui only tests paths
\* for truthiness), and "no file at this path" for the file system.
None == <<>>
NoFile == [kind |-> "absent"]
NoExc == "none"

\* The placeholder 'N/A' of a csv cell; landmark values are all >= 0.
NA == -1

\* A raster frame: what the detector does with it, and its content v.
\*   "pose": a subject is detected, "none": no subject, "bad": cvtColor or
\*   pose.process raises on it.
Frames ==
    {[kind |-> "none", v |-> 0], [kind |-> "bad", v |-> 0]}
        \cup {[kind |-> "pose", v |-> v] : v \in 1..2}

FpsValues == -1..MaxFps

Formats == {"json", "csv"}

\* Failures of the file system during save_landmarks_data:
\*   "mkdir": os.makedirs or open raises OSError, no file is created;
\*   "write": the file is created and a write to it raises OSError.
SaveFaults == {"none", "mkdir", "write"}

\* Failures during save_visualized_video:
\*   "mkdir": os.makedirs raises OSError, no file is created;
\*   "encode": cv2.VideoWriter cannot open the container; it does not raise,
\*             its write calls do nothing, and no file is written.
RenderFaults == {"none", "mkdir", "encode"}

\* User-facing messages of process_video_and_update_ui.
MsgSelectFile == "select_file"
MsgAnalysisFailed == "analysis_failed"
MsgEmpty == "empty_or_too_short"
MsgSaveFailed == "failed_to_save_results"
MsgSuccess == "success"
MsgVideoNote == "note_video_save_failed"
MsgLandmarksNote == "note_landmarks_save_failed"
MsgUnexpected == "unexpected_error"

\* Output paths (directory, kind of output, extension).
LandmarksPath(output_format) == <<"output/landmarks_data/", "landmarks", output_format>>
VideoPath == <<"output/visualized/", "landmarked", "mp4">>

\* ------------------------------------------------------------------ state

VARIABLES
    pc,                   \* position in process_video_and_update_ui / analyze_video
    video_file_obj,       \* TRUE when a file was uploaded
    output_format_choice, \* "json" or "csv"
    pose,                 \* detector instance: "unset", "open", "closed"
    cap,                  \* source reader: "unset", "open", "failed", "released"
    fps,                  \* frame rate read from the source
    source,               \* frames read from the source so far
    detectCalls,          \* number of pose.process invocations
    results,              \* result of the detector on the current frame
    all_frames_data,      \* landmark series
    processed_frames,     \* annotated-frame buffer
    ret,                  \* what analyze_video returned
    landmarks_file,       \* content of the landmark file, or NoFile
    video_file,           \* content of the rendered video file, or NoFile
    landmarks_file_path,  \* local of process_video_and_update_ui
    visualized_video_path,\* local of process_video_and_update_ui
    faults,               \* the failure each output stage meets in this run, if it runs
    stage,                \* per output stage: "idle", "ok", "failed"
    exc,                  \* exception in flight, or NoExc
    result,               \* the returned triple, once pc = "done"
    now,                  \* the clock, in ticks
    disk,                 \* landmark files left by direct calls of save_landmarks_data
    calls                 \* the direct calls of save_landmarks_data made so far

vars == <<pc, video_file_obj, output_format_choice, pose, cap, fps, source,
          detectCalls, results, all_frames_data, processed_frames, ret,
          landmarks_file, video_file, landmarks_file_path,
          visualized_video_path, faults, stage, exc, result, now, disk, calls>>

\* The state of the direct calls of save_landmarks_data.
directVars == <<now, disk, calls>>

NoResult == <<None, None, <<>>>>
NoRet == [isNone |-> TRUE, all_frames_data |-> <<>>, processed_frames |-> <<>>, fps |-> 0]

Init ==
    /\ pc = "start"
    /\ video_file_obj \in BOOLEAN
    /\ output_format_choice \in Formats
    /\ pose = "unset"
    /\ cap = "unset"
    /\ fps = 0
    /\ source = <<>>
    /\ detectCalls = 0
    /\ results = <<>>
    /\ all_frames_data = <<>>
    /\ processed_frames = <<>>
    /\ ret = NoRet
    /\ landmarks_file = NoFile
    /\ video_file = NoFile
    /\ landmarks_file_path = None
    /\ visualized_video_path = None
    /\ faults \in [landmarks : SaveFaults, video : RenderFaults]
    /\ stage = [landmarks |-> "idle", video |-> "idle"]
    /\ exc = NoExc
    /\ result = NoResult
    /\ now = 0
    /\ disk = {}
    /\ calls = <<>>

\* ------------------------------------------------------------------ analyze_video

\* pose.process on one frame: the K landmarks of the detected subject, in the
\* detector's joint order, or no pose_landmarks.
PoseProcess(frame) ==
    IF frame.kind = "pose"
    THEN [j \in 1..NumJoints |->
            [x |-> frame.v, y |-> frame.v + j, z |-> j, visibility |-> 1]]
    ELSE <<>>

\* The annotated copy of a frame: landmarks drawn when a pose was detected.
AnnotatedFrame(frame, res) == [frame |-> frame, drawn |-> res # <<>>]

\* Lines 76-85: the landmark records of the current frame, id = position in
\* the detector's list counted from 0.
CurrentFrameLandmarks(res) ==
    [j \in 1..Len(res) |->
        [id |-> j - 1, x |-> res[j].x, y |-> res[j].y, z |-> res[j].z,
         visibility |-> res[j].visibility]]

\* Line 86, with a frame without a detection skipped.
AppendFrameDataSkipEmpty(series, res) ==
    IF res = <<>> THEN series ELSE Append(series, CurrentFrameLandmarks(res))

\* Line 86: the record list of the frame is appended, empty or not.
AppendFrameData(series, res) == Append(series, CurrentFrameLandmarks(res))

\* Lines 39-51: the detector and the reader are created; a reader that did
\* not open returns (None, None, None) at once.
analyze_open ==
    /\ pc = "analyze_open"
    /\ pose' = "open"
    /\ \E opened \in BOOLEAN :
          IF opened
          THEN /\ cap' = "open"
               /\ \E f \in FpsValues : fps' = f
               /\ pc' = "analyze_read"
               /\ ret' = ret
          ELSE /\ cap' = "failed"
               /\ fps' = fps
               /\ ret' = NoRet
               /\ pc' = "process_check"
    /\ UNCHANGED <<video_file_obj, output_format_choice, source, detectCalls,
                   results, all_frames_data, processed_frames, landmarks_file,
                   video_file, landmarks_file_path, visualized_video_path,
                   directVars, faults, stage, exc, result>>

\* Lines 55-58: cap.read() yields the next frame, or fails at the end.
analyze_read ==
    /\ pc = "analyze_read"
    /\ \/ /\ Len(source) < MaxFrames
          /\ \E frame \in Frames : source' = Append(source, frame)
          /\ pc' = "analyze_detect"
       \/ /\ source' = source
          /\ pc' = "analyze_release"
    /\ UNCHANGED <<video_file_obj, output_format_choice, pose, cap, fps,
                   detectCalls, results, all_frames_data, processed_frames, ret,
                   landmarks_file, video_file, landmarks_file_path,
                   visualized_video_path, directVars, faults, stage, exc, result>>

\* Lines 60-73: convert, detect, annotate and buffer the annotated frame.  An
\* exception of cvtColor or pose.process leaves analyze_video at once.
analyze_detect ==
    /\ pc = "analyze_detect"
    /\ detectCalls' = detectCalls + 1
    /\ LET frame == source[Len(source)] IN
         IF frame.kind = "bad"
         THEN /\ exc' = "DetectionError"
              /\ pc' = "process_except"
              /\ UNCHANGED <<results, processed_frames>>
         ELSE /\ results' = PoseProcess(frame)
              /\ processed_frames' =
                    Append(processed_frames, AnnotatedFrame(frame, PoseProcess(frame)))
              /\ pc' = "analyze_extract"
              /\ exc' = exc
    /\ UNCHANGED <<video_file_obj, output_format_choice, pose, cap, fps, source,
                   all_frames_data, ret, landmarks_file, video_file,
                   landmarks_file_path, visualized_video_path, directVars, faults, stage, result>>

\* Lines 75-86: the frame's landmark records join the series.
analyze_extract ==
    /\ pc = "analyze_extract"
    /\ all_frames_data' = AppendFrameData(all_frames_data, results)
    /\ pc' = "analyze_read"
    /\ UNCHANGED <<video_file_obj, output_format_choice, pose, cap, fps, source,
                   detectCalls, results, processed_frames, ret, landmarks_file,
                   video_file, landmarks_file_path, visualized_video_path,
                   directVars, faults, stage, exc, result>>

\* Lines 88-91: release the reader, close the detector, return.
analyze_release ==
    /\ pc = "analyze_release"
    /\ cap' = "released"
    /\ pose' = "closed"
    /\ ret' = [isNone |-> FALSE, all_frames_data |-> all_frames_data,
               processed_frames |-> processed_frames, fps |-> fps]
    /\ pc' = "process_check"
    /\ UNCHANGED <<video_file_obj, output_format_choice, fps, source, detectCalls,
                   results, all_frames_data, processed_frames, landmarks_file,
                   video_file, landmarks_file_path, visualized_video_path,
                   directVars, faults, stage, exc, result>>

\* ------------------------------------------------------------------ save_landmarks_data

RECURSIVE Gcd(_, _)
Gcd(a, b) == IF b = 0 THEN a ELSE Gcd(b, a % b)

\* The quotient a / b (b > 0, a >= 0) as a fraction in lowest terms.
Quotient(a, b) == <<a \div Gcd(a, b), b \div Gcd(a, b)>>

\* Line 124, with the frame counted from 1.
TimestampOneBased(frame_idx, rate) ==
    IF rate > 0 THEN Quotient(frame_idx + 1, rate) ELSE <<0, 1>>

\* Line 124: frame_idx / fps if fps > 0 else 0.
Timestamp(frame_idx, rate) ==
    IF rate > 0 THEN Quotient(frame_idx, rate) ELSE <<0, 1>>

\* Lines 120-129: the document of the json format; enumerate counts from 0.
FormattedData(series, rate) ==
    [fps |-> rate,
     frames |-> [i \in 1..Len(series) |->
                    [timestamp |-> Timestamp(i - 1, rate),
                     poseLandmarks |-> series[i]]]]

\* Line 135.
Header == <<"frame_index", "landmark_id", "x", "y", "z", "visibility">>

\* Lines 146-153: the row of one landmark.  landmark['landmark_id'],
\* landmark['x'], ['y'] and ['z'] raise KeyError on a missing key;
\* visibility is read with .get and defaults to 'N/A'.
RowKeys == {"landmark_id", "x", "y", "z"}

LandmarkRow(frame_idx, landmark) ==
    <<frame_idx, landmark.landmark_id, landmark.x, landmark.y, landmark.z,
      IF "visibility" \in DOMAIN landmark THEN landmark.visibility ELSE NA>>

\* Line 156: the row of a frame without landmarks.
SentinelRow(frame_idx) == <<frame_idx, NA, NA, NA, NA, NA>>

\* Lines 144-156 for one frame: the rows written, and the exception that
\* ended the loop over its landmarks, if any.
FrameRows(frame_idx, frame_landmarks) ==
    IF frame_landmarks = <<>>
    THEN [rows |-> <<SentinelRow(frame_idx)>>, exc |-> NoExc]
    ELSE LET bad == {k \in 1..Len(frame_landmarks) :
                        ~(RowKeys \subseteq DOMAIN frame_landmarks[k])}
             stop == IF bad = {} THEN Len(frame_landmarks)
                     ELSE (CHOOSE k \in bad : \A m \in bad : k <= m) - 1
         IN [rows |-> [k \in 1..stop |-> LandmarkRow(frame_idx, frame_landmarks[k])],
             exc |-> IF bad = {} THEN NoExc ELSE "KeyError"]

\* Lines 138-156: the data rows written from frame number i on (frame_idx =
\* i - 1), up to the first exception.
RECURSIVE CsvRows(_, _)
CsvRows(series, i) ==
    IF i > Len(series)
    THEN [rows |-> <<>>, exc |-> NoExc]
    ELSE LET here == FrameRows(i - 1, series[i]) IN
         IF here.exc # NoExc
         THEN here
         ELSE LET rest == CsvRows(series, i + 1) IN
              [rows |-> here.rows \o rest.rows, exc |-> rest.exc]

\* Lines 107-158: the outcome of save_landmarks_data: the file it leaves, the
\* path it returns and the exception it raises.
save_landmarks_data(series, output_format, rate, fault) ==
    IF fault = "mkdir"
    THEN [file |-> NoFile, path |-> None, exc |-> "OSError"]
    ELSE IF fault = "write"
    THEN [file |-> [kind |-> output_format, complete |-> FALSE],
          path |-> None, exc |-> "OSError"]
    ELSE IF output_format = "json"
    THEN [file |-> [kind |-> "json", complete |-> TRUE,
                    doc |-> FormattedData(series, rate)],
          path |-> LandmarksPath(output_format), exc |-> NoExc]
    ELSE LET enc == CsvRows(series, 1) IN
         [file |-> [kind |-> "csv", complete |-> enc.exc = NoExc,
                    header |-> Header, rows |-> enc.rows],
          path |-> IF enc.exc = NoExc THEN LandmarksPath(output_format) ELSE None,
          exc |-> enc.exc]

\* ------------------------------------------------------------------ save_visualized_video

\* Lines 174-199: the outcome of save_visualized_video.
save_visualized_video(frames, fault) ==
    IF frames = <<>>
    THEN [file |-> NoFile, path |-> None, exc |-> NoExc]
    ELSE IF fault = "mkdir"
    THEN [file |-> NoFile, path |-> None, exc |-> "OSError"]
    ELSE IF fault = "encode"
    THEN [file |-> NoFile, path |-> VideoPath, exc |-> NoExc]
    ELSE [file |-> [kind |-> "mp4", complete |-> TRUE, frames |-> frames],
          path |-> VideoPath, exc |-> NoExc]

\* ------------------------------------------------------------------ process_video_and_update_ui

\* Lines 217-220: no uploaded file ends the run at once.
process_start ==
    /\ pc = "start"
    /\ IF video_file_obj
       THEN /\ pc' = "analyze_open"
            /\ result' = result
       ELSE /\ pc' = "done"
            /\ result' = <<None, None, <<MsgSelectFile>>>>
    /\ UNCHANGED <<video_file_obj, output_format_choice, pose, cap, fps, source,
                   detectCalls, results, all_frames_data, processed_frames, ret,
                   landmarks_file, video_file, landmarks_file_path,
                   visualized_video_path, directVars, faults, stage, exc>>

\* Lines 227-233 without the test for None: `not processed_frames` is true
\* of None as of the empty list.
AnalysisOutcomeNoNoneTest(r) ==
    IF r.processed_frames = <<>> THEN "empty" ELSE "ok"

\* Lines 227-233 without the test for an empty buffer.
AnalysisOutcomeNoEmptyTest(r) ==
    IF r.isNone THEN "failed" ELSE "ok"

\* Lines 227-233: what the orchestrator makes of analyze_video's result.
AnalysisOutcome(r) ==
    IF r.isNone THEN "failed"
    ELSE IF r.processed_frames = <<>> THEN "empty"
    ELSE "ok"

\* Lines 224-233.
process_check ==
    /\ pc = "process_check"
    /\ LET outcome == AnalysisOutcome(ret) IN
         IF outcome = "failed"
         THEN /\ result' = <<None, None, <<MsgAnalysisFailed>>>>
              /\ pc' = "done"
         ELSE IF outcome = "empty"
         THEN /\ result' = <<None, None, <<MsgEmpty>>>>
              /\ pc' = "done"
         ELSE /\ result' = result
              /\ pc' = "process_save_landmarks"
    /\ UNCHANGED <<video_file_obj, output_format_choice, pose, cap, fps, source,
                   detectCalls, results, all_frames_data, processed_frames, ret,
                   landmarks_file, video_file, landmarks_file_path,
                   visualized_video_path, directVars, faults, stage, exc>>

\* Line 236: save the landmark data; an exception goes to the handler of
\* line 255.
process_save_landmarks ==
    /\ pc = "process_save_landmarks"
    /\ LET out == save_landmarks_data(ret.all_frames_data, output_format_choice,
                                        ret.fps, faults.landmarks) IN
           /\ landmarks_file' = out.file
           /\ IF out.exc # NoExc
              THEN /\ exc' = out.exc
                   /\ stage' = [stage EXCEPT !.landmarks = "failed"]
                   /\ landmarks_file_path' = landmarks_file_path
                   /\ pc' = "process_except"
              ELSE /\ exc' = exc
                   /\ stage' = [stage EXCEPT !.landmarks = "ok"]
                   /\ landmarks_file_path' = out.path
                   /\ pc' = "process_save_video"
    /\ UNCHANGED <<video_file_obj, output_format_choice, pose, cap, fps, source,
                   detectCalls, results, all_frames_data, processed_frames, ret,
                   video_file, visualized_video_path, directVars, faults, result>>

\* Line 239: save the annotated video.
process_save_video ==
    /\ pc = "process_save_video"
    /\ LET out == save_visualized_video(ret.processed_frames, faults.video) IN
           /\ video_file' = out.file
           /\ stage' = [stage EXCEPT !.video =
                            IF faults.video = "none" THEN "ok" ELSE "failed"]
           /\ IF out.exc # NoExc
              THEN /\ exc' = out.exc
                   /\ visualized_video_path' = visualized_video_path
                   /\ pc' = "process_except"
              ELSE /\ exc' = exc
                   /\ visualized_video_path' = out.path
                   /\ pc' = "process_report"
    /\ UNCHANGED <<video_file_obj, output_format_choice, pose, cap, fps, source,
                   detectCalls, results, all_frames_data, processed_frames, ret,
                   landmarks_file, landmarks_file_path, directVars, faults, result>>

\* Lines 242-253: the triple returned after both stages returned.
Report(video_path, landmarks_path) ==
    IF video_path = None /\ landmarks_path = None
    THEN <<None, None, <<MsgSaveFailed>>>>
    ELSE <<video_path, landmarks_path,
           <<MsgSuccess>>
             \o (IF video_path = None THEN <<MsgVideoNote>> ELSE <<>>)
             \o (IF landmarks_path = None THEN <<MsgLandmarksNote>> ELSE <<>>)>>

process_report ==
    /\ pc = "process_report"
    /\ result' = Report(visualized_video_path, landmarks_file_path)
    /\ pc' = "done"
    /\ UNCHANGED <<video_file_obj, output_format_choice, pose, cap, fps, source,
                   detectCalls, results, all_frames_data, processed_frames, ret,
                   landmarks_file, video_file, landmarks_file_path,
                   visualized_video_path, directVars, faults, stage, exc>>

\* Lines 255-259: any exception of the try block ends the run with the
\* unexpected-error message, which carries str(e).
process_except ==
    /\ pc = "process_except"
    /\ result' = <<None, None, <<MsgUnexpected, exc>>>>
    /\ pc' = "done"
    /\ UNCHANGED <<video_file_obj, output_format_choice, pose, cap, fps, source,
                   detectCalls, results, all_frames_data, processed_frames, ret,
                   landmarks_file, video_file, landmarks_file_path,
                   visualized_video_path, directVars, faults, stage, exc>>

Next ==
    \/ process_start
    \/ analyze_open
    \/ analyze_read
    \/ analyze_detect
    \/ analyze_extract
    \/ analyze_release
    \/ process_check
    \/ process_save_landmarks
    \/ process_save_video
    \/ process_report
    \/ process_except

Spec == Init /\ [][Next]_vars

\* ------------------------------------------------------------------ direct calls of save_landmarks_data

\* An argument value that may be a number or a string.
Num(n) == [t |-> "num", n |-> n, s |-> ""]
Str(x) == [t |-> "str", n |-> 0, s |-> x]

\* Line 93: the defaults of fps and output_dir_landmarks.
DefaultFps == 30
DefaultOutputDir == "output/landmarks_data/"

\* test_app.py, lines 9-20: the series, the video path and the output
\* directory the tests pass; the empty series is added.
DummyFrame(v) ==
    << [landmark_id |-> 0, x |-> v, y |-> v + 1, z |-> v + 2, visibility |-> 9],
       [landmark_id |-> 1, x |-> v + 1, y |-> v + 2, z |-> v + 3, visibility |-> 8] >>
DUMMY_FRAMES_DATA == << DummyFrame(1), DummyFrame(2) >>
DirectSeries == {DUMMY_FRAMES_DATA, <<>>}
ORIGINAL_VIDEO_PATH_DUMMY == [dir |-> "", base |-> "test_video", ext |-> "mp4"]
OUTPUT_DIR_LANDMARKS_TEST == "output_test/landmarks_data/"

\* The arguments that follow (series, format, video path) in a call: the
\* output directory alone as the tests pass it (lines 45-47 and 92-94 of
\* test_app.py), the frame rate alone as line 236 passes it, or both.
ExtraArgs ==
    {<<Str(OUTPUT_DIR_LANDMARKS_TEST)>>, <<Num(1)>>,
     <<Num(1), Str(OUTPUT_DIR_LANDMARKS_TEST)>>}

\* Line 93: positional arguments bound to the parameters in the order
\* (all_frames_data, output_format, original_video_path, fps,
\* output_dir_landmarks), the last two with their defaults.
BindArgs(args) ==
    [all_frames_data |-> args[1],
     output_format |-> args[2],
     original_video_path |-> args[3],
     fps |-> IF Len(args) >= 4 THEN args[4] ELSE Num(DefaultFps),
     output_dir_landmarks |-> IF Len(args) >= 5 THEN args[5].s ELSE DefaultOutputDir]

\* Line 108: datetime.now().strftime("%Y%m%d_%H%M%S"), the clock cut to whole
\* seconds.
Strftime(clock) == clock \div TicksPerSecond

\* Lines 110-112: the output path, as directory and file name
\* {base}_{timestamp}_landmarks.{format}.
OutputFilePath(b, clock) ==
    [dir |-> b.output_dir_landmarks,
     name |-> <<b.original_video_path.base, Strftime(clock), "landmarks",
                b.output_format>>]

NoPath == [dir |-> "", name |-> <<>>]

\* Lines 107-158 for one call on a file system that does not fail: the path
\* of the file it opens, whether the file is written to the end, the path it
\* returns and the exception it raises.  In the json branch `fps > 0` (line
\* 124) is evaluated for each frame and raises TypeError when fps is a str;
\* the csv branch does not use fps.
SaveCall(args, clock) ==
    LET b == BindArgs(args)
        path == OutputFilePath(b, clock)
    IN IF b.output_format = "json" /\ b.fps.t = "str" /\ b.all_frames_data # <<>>
       THEN [path |-> path, complete |-> FALSE, returned |-> NoPath,
             exc |-> "TypeError"]
       ELSE LET out == save_landmarks_data(b.all_frames_data, b.output_format,
                                           b.fps.n, "none") IN
            [path |-> path, complete |-> out.exc = NoExc,
             returned |-> IF out.exc = NoExc THEN path ELSE NoPath,
             exc |-> out.exc]

\* The variables of a run of process_video_and_update_ui.
uiVars == <<pc, video_file_obj, output_format_choice, pose, cap, fps, source,
            detectCalls, results, all_frames_data, processed_frames, ret,
            landmarks_file, video_file, landmarks_file_path,
            visualized_video_path, faults, stage, exc, result>>

\* A caller outside the orchestrator, as the tests are: no run is under way.
InitDirect ==
    /\ pc = "direct"
    /\ video_file_obj = FALSE
    /\ output_format_choice = "json"
    /\ pose = "unset"
    /\ cap = "unset"
    /\ fps = 0
    /\ source = <<>>
    /\ detectCalls = 0
    /\ results = <<>>
    /\ all_frames_data = <<>>
    /\ processed_frames = <<>>
    /\ ret = NoRet
    /\ landmarks_file = NoFile
    /\ video_file = NoFile
    /\ landmarks_file_path = None
    /\ visualized_video_path = None
    /\ faults = [landmarks |-> "none", video |-> "none"]
    /\ stage = [landmarks |-> "idle", video |-> "idle"]
    /\ exc = NoExc
    /\ result = NoResult
    /\ now = 0
    /\ disk = {}
    /\ calls = <<>>

\* One call of save_landmarks_data; open(path, 'w') replaces a file that is
\* already at the path.
direct_call ==
    /\ pc = "direct"
    /\ Len(calls) < MaxCalls
    /\ \E series \in DirectSeries, output_format \in Formats, extra \in ExtraArgs :
         LET args == <<series, output_format, ORIGINAL_VIDEO_PATH_DUMMY>> \o extra
             out == SaveCall(args, now) IN
           /\ disk' = {f \in disk : f.path # out.path}
                         \cup {[path |-> out.path, complete |-> out.complete]}
           /\ calls' = Append(calls, [args |-> args, at |-> Strftime(now),
                                      returned |-> out.returned, exc |-> out.exc])
    /\ UNCHANGED <<now, uiVars>>

\* Time passes between calls.
tick ==
    /\ pc = "direct"
    /\ now < MaxClock
    /\ now' = now + 1
    /\ UNCHANGED <<disk, calls, uiVars>>

NextDirect ==
    \/ direct_call
    \/ tick

SpecDirect == InitDirect /\ [][NextDirect]_vars

\* ------------------------------------------------------------------ properties

\* analyze_video has returned to, or raised into, process_video_and_update_ui.
AnalyzeEnded ==
    pc \in {"process_check", "process_save_landmarks", "process_save_video",
            "process_report", "process_except", "done"} /\ pose # "unset"

\* The output stages were reached in this run.
OutputsReached == stage.landmarks # "idle"

NoOutputFile == landmarks_file = NoFile /\ video_file = NoFile

\* Entry i of the series is what the detector reports for source frame i:
\* empty for a frame without a subject, the K joints numbered from 0 otherwise.
EntryOfFrame(entry, frame) ==
    /\ frame.kind # "pose" => entry = <<>>
    /\ frame.kind = "pose" =>
         /\ Len(entry) = NumJoints
         /\ \A j \in 1..NumJoints :
               /\ entry[j].id = j - 1
               /\ entry[j].x = frame.v
               /\ entry[j].y = frame.v + j

\* C1: index alignment.  At the head of the extraction loop and after it, the
\* landmark series and the annotated-frame buffer both have one entry per
\* frame read so far, entry i of each belongs to source frame i, and a frame
\* without a detection has an empty entry; analyze_video returns such lists.
C1_IndexAlignment ==
    /\ pc \in {"analyze_read", "analyze_release"} =>
         /\ Len(all_frames_data) = Len(source)
         /\ Len(processed_frames) = Len(source)
    /\ \A i \in 1..Len(all_frames_data) :
         /\ i <= Len(source)
         /\ EntryOfFrame(all_frames_data[i], source[i])
    /\ \A i \in 1..Len(processed_frames) :
         /\ i <= Len(source)
         /\ processed_frames[i].frame = source[i]
         /\ processed_frames[i].drawn = (source[i].kind = "pose")
    /\ (AnalyzeEnded /\ ~ret.isNone) =>
         /\ ret.all_frames_data = all_frames_data
         /\ ret.processed_frames = processed_frames
         /\ Len(ret.all_frames_data) = Len(source)
         /\ Len(ret.processed_frames) = Len(source)

\* C1 witness: the pass ended over a source with a detected and a
\* non-detected frame.
C1_Witness ==
    /\ pc = "analyze_release"
    /\ Len(source) >= 2
    /\ \E i \in 1..Len(source) : source[i].kind = "none"
    /\ \E i \in 1..Len(source) : source[i].kind = "pose"

\* A complete json landmark file has been written.
JsonWritten ==
    /\ landmarks_file.kind = "json"
    /\ landmarks_file.complete

CsvSaveRan ==
    /\ pc = "done"
    /\ output_format_choice = "csv"
    /\ OutputsReached
    /\ faults.landmarks = "none"

\* The data rows of the csv file that carry frame index idx.
RowsOfFrame(rows, idx) == {k \in 1..Len(rows) : rows[k][1] = idx}

RECURSIVE ExpectedRowCount(_, _)
ExpectedRowCount(series, i) ==
    IF i > Len(series) THEN 0
    ELSE (IF series[i] = <<>> THEN 1 ELSE Len(series[i]))
            + ExpectedRowCount(series, i + 1)

\* C3: the csv encoder.  The file has the header and, in frame order, k rows
\* for a frame with k >= 1 landmarks and one sentinel row for an empty frame,
\* the sum over the frames of max(1, k) data rows in all.
C3_CsvEncoding ==
    CsvSaveRan =>
        LET series == ret.all_frames_data IN
          /\ landmarks_file.kind = "csv"
          /\ landmarks_file.header = Header
          /\ Len(landmarks_file.rows) = ExpectedRowCount(series, 1)
          /\ \A k \in 1..(Len(landmarks_file.rows) - 1) :
                landmarks_file.rows[k][1] <= landmarks_file.rows[k + 1][1]
          /\ \A i \in 1..Len(series) :
                LET mine == RowsOfFrame(landmarks_file.rows, i - 1) IN
                  IF series[i] = <<>>
                  THEN \A k \in mine :
                          landmarks_file.rows[k] = <<i - 1, NA, NA, NA, NA, NA>>
                  ELSE Cardinality(mine) = Len(series[i])

\* C4: the formats are interchangeable on the extractor's records.  For a
\* series whose n frames all hold k >= 1 records, a json run yields n frames
\* of k poseLandmarks, and a csv run completes with n * k data rows whose
\* landmark_id is the record's id.
C4_FormatsInterchangeable ==
    (/\ pc = "done"
     /\ OutputsReached
     /\ faults.landmarks = "none"
     /\ \A i \in 1..Len(ret.all_frames_data) : ret.all_frames_data[i] # <<>>) =>
        LET series == ret.all_frames_data IN
          /\ stage.landmarks = "ok"
          /\ landmarks_file.complete
          /\ output_format_choice = "json" =>
               /\ Len(landmarks_file.doc.frames) = Len(series)
               /\ \A i \in 1..Len(series) :
                     Len(landmarks_file.doc.frames[i].poseLandmarks) = NumJoints
          /\ output_format_choice = "csv" =>
               /\ Len(landmarks_file.rows) = Len(series) * NumJoints
               /\ \A i \in 1..Len(series) : \A j \in 1..NumJoints :
                     landmarks_file.rows[(i - 1) * NumJoints + j][2] = series[i][j].id

\* What the run returns when exactly one output stage failed.
PartialResult ==
    <<IF stage.video = "ok" THEN VideoPath ELSE None,
      IF stage.landmarks = "ok" THEN LandmarksPath(output_format_choice) ELSE None,
      <<MsgSuccess,
        IF stage.video = "ok" THEN MsgLandmarksNote ELSE MsgVideoNote>>>>

\* C5: independent partial failure.  In a run that reached the output stages
\* both stages are attempted whatever the first did, and when exactly one of
\* them failed the run returns the path of the other, None for the failed
\* one, and the success message with the note of the failed output.
C5_IndependentPartialFailure ==
    (pc = "done" /\ OutputsReached) =>
        /\ stage.video # "idle"
        /\ ((stage.landmarks = "failed") # (stage.video = "failed")) =>
              result = PartialResult

\* C6: when both output stages fail, the run returns (None, None, "failed to
\* save results").
C6_BothFail ==
    (/\ pc = "done"
     /\ OutputsReached
     /\ faults.landmarks # "none"
     /\ faults.video # "none") =>
        result = <<None, None, <<MsgSaveFailed>>>>

\* C7: empty input.  A source that opened and yielded no frame ends the run
\* with (None, None, the empty/too-short warning); no output stage runs and no
\* file is written.
C7_EmptyInput ==
    (AnalyzeEnded /\ cap = "released" /\ source = <<>>) =>
        /\ stage = [landmarks |-> "idle", video |-> "idle"]
        /\ NoOutputFile
        /\ pc \in {"process_check", "done"}
        /\ pc = "done" =>
             /\ result = <<None, None, <<MsgEmpty>>>>
             /\ MsgEmpty \notin {MsgAnalysisFailed, MsgSaveFailed, MsgSuccess,
                                 MsgUnexpected, MsgSelectFile}

\* C7 witness: the run over an opened, empty source has returned.
C7_Witness == pc = "done" /\ cap = "released" /\ source = <<>>

\* C8: unreadable source.  When the reader does not open, no frame is read,
\* the detector is not invoked, no output stage runs, no file is written, and
\* the run returns (None, None, the analysis-failed message), which is not
\* the empty-input message.
C8_UnreadableSource ==
    cap = "failed" =>
        /\ source = <<>>
        /\ detectCalls = 0
        /\ stage = [landmarks |-> "idle", video |-> "idle"]
        /\ NoOutputFile
        /\ pc \in {"process_check", "done"}
        /\ pc = "done" =>
             /\ result = <<None, None, <<MsgAnalysisFailed>>>>
             /\ MsgAnalysisFailed # MsgEmpty

\* C8 witness: the run over a source that did not open has returned.
C8_Witness == pc = "done" /\ cap = "failed"

\* C9: detector failure.  When the detector raises on a frame the run ends
\* with (None, None, the analysis-failed message), without an output stage
\* and without a file.
C9_DetectorFailure ==
    (pc = "done" /\ exc = "DetectionError") =>
        /\ stage = [landmarks |-> "idle", video |-> "idle"]
        /\ NoOutputFile
        /\ result = <<None, None, <<MsgAnalysisFailed>>>>

\* C10: resource release.  Once analyze_video has ended, on whatever path,
\* the detector is closed and the reader is not open.
C10_ResourceRelease ==
    AnalyzeEnded => pose = "closed" /\ cap # "open"

\* A call made as the tests make it: (series, format, video path, directory).
TestStyleCall(c) == Len(c.args) = 4 /\ c.args[4].t = "str"

\* C11: output naming and location.  A call of save_landmarks_data with the
\* four positional arguments (series, format, original video path, output
\* directory D) completes and returns the path of an existing file under D
\* named {base}_{timestamp}_landmarks.{format}, the timestamp being the time
\* of the call in whole seconds; two such calls on the same input whose
\* timestamps differ return different paths.
C11_OutputNamingAndLocation ==
    /\ \A k \in 1..Len(calls) :
          LET c == calls[k] IN
            TestStyleCall(c) =>
               /\ c.exc = NoExc
               /\ \E f \in disk : f.path = c.returned /\ f.complete
               /\ c.returned.dir = c.args[4].s
               /\ c.returned.name =
                     <<c.args[3].base, c.at, "landmarks", c.args[2]>>
    /\ \A j, k \in 1..Len(calls) :
          (/\ TestStyleCall(calls[j])
           /\ TestStyleCall(calls[k])
           /\ calls[j].args = calls[k].args
           /\ calls[j].at # calls[k].at) =>
              calls[j].returned # calls[k].returned

\* C12: returned paths account for every file written.  When the run has
\* returned, an output file exists only if its path is in the returned triple;
\* a run that returns (None, None, message) leaves no file, whole or partial.
C12_ReturnedPathsAccountForFiles ==
    pc = "done" =>
        /\ landmarks_file # NoFile => result[2] = LandmarksPath(output_format_choice)
        /\ video_file # NoFile => result[1] = VideoPath

====
